---- MODULE Spec2Model ----
(***************************************************************************)
(* LogLib PyServer (docker/logger.py): the TCP/UDP log ingestion server.   *)
(*                                                                         *)
(* Bytes are modelled by one-character strings:                            *)
(*   "n"  0x0A line feed          "s"  0x20 space                          *)
(*   "m"  0x1E record separator   "x"  0xFF (never valid in UTF-8)         *)
(*   "a"  a letter                "1"  the digit 1                         *)
(*   "e"  the byte string {"message":"hi"}   (a well-formed event)         *)
(*   "b"  the byte string {"message":1}      (an event whose formatting    *)
(*        raises: " ".join() of a non-string message)                      *)
(*   "L"  a run of 100 letters                                             *)
(* "e" and "b" stand for whole JSON documents, as do the symbols of        *)
(* DocSymbols below; "L" stands for 100 bytes; every other symbol is one   *)
(* byte.                                                                   *)
(***************************************************************************)
EXTENDS Integers, Sequences, FiniteSets, TLC

\* ------------------------------------------------------------------ bounds
NumConns == 2
MaxStreamLen == 3
MaxDatagrams == 2
MaxPayloadLen == 2
MaxSignals == 1
MaxDay == 1
MaxOpenFailures == 1
MaxSocketErrors == 1

\* ------------------------------------------------------------ byte strings
Bytes == {"n", "s", "m", "x", "a", "1", "e", "b", "L"}

PayloadBytes == Bytes \ {"n"}

BytesWhitespace == {"s", "n"}

StrWhitespace == {"s", "n", "m"}

RECURSIVE SeqsUpTo(_, _)
SeqsUpTo(S, k) ==
  IF k = 0 THEN {<<>>}
  ELSE LET prev == SeqsUpTo(S, k - 1)
       IN  prev \cup {Append(q, b) : q \in {p \in prev : Len(p) = k - 1}, b \in S}

Range(q) == {q[i] : i \in 1..Len(q)}

\* q with the leading and trailing members of ws removed (bytes.strip / str.strip)
Strip(q, ws) ==
  LET keep == {i \in 1..Len(q) : q[i] \notin ws}
  IN  IF keep = {} THEN <<>>
      ELSE LET lo == CHOOSE i \in keep : \A j \in keep : i <= j
               hi == CHOOSE i \in keep : \A j \in keep : j <= i
           IN  SubSeq(q, lo, hi)

bytes_strip(q) == Strip(q, BytesWhitespace)

str_strip(q) == Strip(q, StrWhitespace)

\* index of the first line feed of q, 0 when there is none
FirstNewline(q) ==
  IF \E i \in 1..Len(q) : q[i] = "n"
  THEN CHOOSE i \in 1..Len(q) : q[i] = "n" /\ \A j \in 1..(i - 1) : q[j] # "n"
  ELSE 0

\* buffer.split(b'\n', 1)
SplitLine(q) ==
  LET i == FirstNewline(q)
  IN  [line |-> SubSeq(q, 1, i - 1), rest |-> SubSeq(q, i + 1, Len(q))]

\* data.decode('utf-8', errors='replace'): never fails
DecodeReplaces(q) == FALSE

\* data.decode('utf-8'): fails on any byte that is not valid UTF-8
DecodeFails(q) == "x" \in Range(q)

\* ------------------------------------------------------------ JSON values
\* A JSON value is [k, v]: k its kind, v a string, an integer, a sequence of
\* values (list) or a function from keys to values (dict).
Str(x) == [k |-> "str", v |-> x]

Num(x) == [k |-> "num", v |-> x]

List(x) == [k |-> "list", v |-> x]

Dict(x) == [k |-> "dict", v |-> x]

Null == [k |-> "null", v |-> 0]

\* the symbols that stand for JSON documents, and the documents
\*   "e"   {"message":"hi"}
\*   "b"   {"message":1}
\*   "lw"  {"level":"WRN","message":"hi"}
\*   "ld"  {"level":"DBG","message":"hi"}
\*   "lu"  {"level":"FOO","message":"hi"}
\*   "ap"  {"application_name":"app","message":"hi"}
\*   "x0"  {"message":"hi","exception":{}}
\*   "xn"  {"message":"hi","exception":{"name":"E","code":"12","line":3}}
\*   "xc"  {"message":"hi","exception":{"name":"E","code":"abc"}}
\*   "xl"  {"message":"hi","exception":{"name":"E","line":"abc"}}
\*   "xf"  {"message":"hi","exception":{"name":"E","trace":[1,{"line":"abc"}]}}
\*   "xk"  {"message":"hi","exception":{"name":"E","trace":[1,{"line":2}]}}
\*   "xp"  {"message":"hi","exception":{"name":"E","previous":{"name":"F","code":[]}}}
\*   "ja"  [1]
\*   "js"  "hi"
DocSymbols == {"e", "b", "lw", "ld", "lu", "ap", "x0", "xn", "xc", "xl", "xf", "xk",
               "xp", "ja", "js"}

EmptyDict == <<>>

WithException(x) == Dict([message |-> Str("hi"), exception |-> Dict(x)])

Doc(y) ==
  CASE y = "e" -> Dict([message |-> Str("hi")])
    [] y = "b" -> Dict([message |-> Num(1)])
    [] y = "lw" -> Dict([level |-> Str("WRN"), message |-> Str("hi")])
    [] y = "ld" -> Dict([level |-> Str("DBG"), message |-> Str("hi")])
    [] y = "lu" -> Dict([level |-> Str("FOO"), message |-> Str("hi")])
    [] y = "ap" -> Dict([application_name |-> Str("app"), message |-> Str("hi")])
    [] y = "x0" -> WithException(EmptyDict)
    [] y = "xn" -> WithException([name |-> Str("E"), code |-> Str("12"), line |-> Num(3)])
    [] y = "xc" -> WithException([name |-> Str("E"), code |-> Str("abc")])
    [] y = "xl" -> WithException([name |-> Str("E"), line |-> Str("abc")])
    [] y = "xf" -> WithException([name |-> Str("E"),
                                  trace |-> List(<<Num(1), Dict([line |-> Str("abc")])>>)])
    [] y = "xk" -> WithException([name |-> Str("E"),
                                  trace |-> List(<<Num(1), Dict([line |-> Num(2)])>>)])
    [] y = "xp" -> WithException([name |-> Str("E"),
                                  previous |-> Dict([name |-> Str("F"),
                                                     code |-> List(<<>>)])])
    [] y = "ja" -> List(<<Num(1)>>)
    [] y = "js" -> Str("hi")

\* the number of bytes a symbol stands for
Width(y) ==
  CASE y = "e" -> 16 [] y = "b" -> 13 [] y = "L" -> 100
    [] y = "lw" -> 30 [] y = "ld" -> 30 [] y = "lu" -> 30 [] y = "ap" -> 41
    [] y = "x0" -> 31 [] y = "xn" -> 62 [] y = "xc" -> 54 [] y = "xl" -> 54
    [] y = "xf" -> 68 [] y = "xk" -> 64 [] y = "xp" -> 75
    [] y = "ja" -> 3 [] y = "js" -> 4
    [] OTHER -> 1

\* len(text)
RECURSIVE CharLen(_)
CharLen(t) == IF t = <<>> THEN 0 ELSE Width(Head(t)) + CharLen(Tail(t))

\* bool(value)
Truthy(x) ==
  CASE x.k = "dict" -> DOMAIN x.v # {}
    [] x.k = "list" -> Len(x.v) > 0
    [] x.k = "str" -> x.v # ""
    [] x.k = "num" -> x.v # 0
    [] OTHER -> FALSE

\* dict.get(key, default)
Get(d, key, default) == IF key \in DOMAIN d THEN d[key] ELSE default

\* the strings int() accepts, with their values
StrToInt == ("12" :> 12) @@ ("3" :> 3) @@ ("0" :> 0)

\* int(value): ValueError on a string that is no number, TypeError on a list,
\* a dict or None
int(x) ==
  IF x.k = "num" THEN [ok |-> TRUE, has |-> TRUE, n |-> x.v]
  ELSE IF x.k = "str" /\ x.v \in DOMAIN StrToInt
       THEN [ok |-> TRUE, has |-> TRUE, n |-> StrToInt[x.v]]
       ELSE [ok |-> FALSE, has |-> FALSE, n |-> 0]

\* int(data[key]) if data.get(key) is not None else None
OptInt(d, key) ==
  IF key \notin DOMAIN d \/ d[key].k = "null"
  THEN [ok |-> TRUE, has |-> FALSE, n |-> 0]
  ELSE int(d[key])

IsDict(x) == x.k = "dict"

\* StackTrace.from_dict(frame): ok is FALSE when it raises
StackTrace_from_dict(frame) ==
  LET l == OptInt(frame, "line") IN [ok |-> l.ok, line |-> l]

\* ExceptionDetails.from_dict(data): st is "none" for a falsy argument
\* (return None), "raise" when an exception leaves it, "ok" otherwise. A
\* truthy argument that is no dict raises at data.get (or at 'trace' in data).
RECURSIVE ExceptionDetails_from_dict(_)
ExceptionDetails_from_dict(data) ==
  IF ~Truthy(data) THEN [st |-> "none"]
  ELSE IF data.k # "dict" THEN [st |-> "raise"]
  ELSE LET d == data.v
           entries == IF "trace" \in DOMAIN d /\ d["trace"].k = "list"
                      THEN SelectSeq(d["trace"].v, IsDict)
                      ELSE <<>>
           trace == [i \in 1..Len(entries) |-> StackTrace_from_dict(entries[i].v)]
           previous == IF "previous" \in DOMAIN d /\ d["previous"].k = "dict"
                       THEN ExceptionDetails_from_dict(d["previous"])
                       ELSE [st |-> "none"]
           code == OptInt(d, "code")
           line == OptInt(d, "line")
       IN  IF \/ \E i \in 1..Len(trace) : ~trace[i].ok
              \/ previous.st = "raise"
              \/ ~code.ok
              \/ ~line.ok
           THEN [st |-> "raise"]
           ELSE [st |-> "ok", code |-> code, line |-> line, trace |-> trace,
                 chain |-> IF previous.st = "ok" THEN 1 + previous.chain ELSE 1]

\* LogFormatter.format_log_event(data, address), data a dict: ok is FALSE when
\* it raises (" ".join of a message that is no string, or from_dict raising)
format_log_event(d) ==
  LET level == Get(d, "level", Str("INFO"))
      app_name == Get(d, "application_name", Str("Unknown"))
      message == Get(d, "message", Str(""))
      exception_data == Get(d, "exception", Null)
      exception == IF Truthy(exception_data)
                   THEN ExceptionDetails_from_dict(exception_data)
                   ELSE [st |-> "none"]
  IN  IF message.k # "str" \/ exception.st = "raise"
      THEN [ok |-> FALSE]
      ELSE [ok |-> TRUE, level |-> level, app_name |-> app_name, message |-> message,
            exception |-> exception]

\* LogLevel(level): the members' values
LevelMap == ("DBG" :> "DEBUG") @@ ("VRB" :> "DEBUG") @@ ("INFO" :> "INFO")
            @@ ("WRN" :> "WARNING") @@ ("ERR" :> "ERROR") @@ ("CRT" :> "CRITICAL")

\* a level that is no member routed as WARNING
to_python_level_warns(level) ==
  IF level.k = "str" /\ level.v \in DOMAIN LevelMap THEN LevelMap[level.v] ELSE "WARNING"

\* LogLevel.to_python_level(level)
to_python_level(level) ==
  IF level.k = "str" /\ level.v \in DOMAIN LevelMap THEN LevelMap[level.v] ELSE "INFO"

\* the numeric values of the logging levels
LevelNo == ("DEBUG" :> 10) @@ ("INFO" :> 20) @@ ("WARNING" :> 30) @@ ("ERROR" :> 40)
           @@ ("CRITICAL" :> 50)

\* main() without --quiet or --verbose: server.logger.setLevel(logging.INFO)
logger_level == "INFO"

\* Logger.isEnabledFor(level)
Emitted(lvl) == LevelNo[lvl] >= LevelNo[logger_level]

\* _handle_log_event(data, address) up to self.logger.log: ok is FALSE when the
\* except clause is taken (data is no dict, or formatting raised)
_handle_log_event(data) ==
  IF data.k # "dict" THEN [ok |-> FALSE]
  ELSE LET formatted_message == format_log_event(data.v)
       IN  IF ~formatted_message.ok THEN [ok |-> FALSE]
           ELSE [ok |-> TRUE, formatted_message |-> formatted_message,
                 python_level |-> to_python_level(Get(data.v, "level", Str("INFO")))]

\* the whole text, whatever its length
PreviewWhole(t) == [shown |-> CharLen(t), ellipsis |-> FALSE]

\* decoded_data[:100] and whether '...' follows it
Preview(t) == [shown |-> IF CharLen(t) <= 100 THEN CharLen(t) ELSE 100,
               ellipsis |-> CharLen(t) > 100]

\* json.loads on stripped text: "value" is the kind of the parsed document,
\* "none" when the text is not JSON (JSONDecodeError)
json_loads(t) ==
  IF Len(t) = 1 /\ t[1] \in DocSymbols
  THEN IF _handle_log_event(Doc(t[1])).ok THEN "dict_ok"
       ELSE IF Doc(t[1]).k = "dict" THEN "dict_bad"
       ELSE Doc(t[1]).k
  ELSE IF t # <<>> /\ Range(t) = {"1"} THEN "number"
  ELSE "none"

\* -------------------------------------------------------- program constants
\* default of --buffer-size, capped by min(buffer_size, 65535)
buffer_size == 65535

\* --max-connections at the smallest value validate_arguments accepts; the
\* server passes it to tcp_socket.listen as the backlog and uses it nowhere else
max_connections == 1

\* -------------------------------------------------------------- identities
Conns == 1..NumConns

UdpSenders == {NumConns + 1}

Sources == Conns \cup UdpSenders

None == 0

\* ------------------------------------------------------------------- state
VARIABLES
  stop_event,      \* self.stop_event
  log_queue,       \* self.log_queue (FIFO)
  log_file,        \* self.log_file: a handle id, or None
  current_date,    \* self.current_date
  stats,           \* self.stats
  today,           \* datetime.now() as a day number
  handles,         \* every file object opened so far: [date, open]
  openFailures,    \* open() calls that raised OSError so far
  disk,            \* what the log files hold: [rec, file, nl]
  mainStack,       \* main thread: start() frame, then signal handler frames
  signals,         \* SIGINT/SIGTERM delivered so far
  procAlive,       \* FALSE once main() has returned: daemon threads are gone
  finalStats,      \* number of "Final statistics" lines logged
  heldAtStop,      \* connections holding non-blank undelimited bytes when stop_event was set
  wpc, wdata, wfile,   \* _log_writer: position, local data, local log_file
  tcppc, udppc,    \* listener threads' positions
  sockErrors,      \* accept()/recvfrom() calls that raised so far
  connpc,          \* _handle_tcp_client threads' positions
  stream,          \* bytes each TCP peer sends over the connection's life
  pos,             \* how many of them recv has returned
  rcv,             \* outcome of the last recv of the current loop iteration
  buffer,          \* _handle_tcp_client's local buffer
  dgrams,          \* the datagrams that arrive, in order: [from, data]
  dpos,            \* how many of them recvfrom has returned
  dispatched,      \* per source: the payloads handed to _handle_data
  console          \* per source: the lines written through self.logger

fileVars == <<log_file, current_date, today, handles, openFailures, disk>>
mainVars == <<mainStack, signals, procAlive, finalStats, heldAtStop, heldAtStop>>
writerVars == <<wpc, wdata, wfile>>
listenVars == <<tcppc, udppc, sockErrors, dpos, dpos>>
connVars == <<connpc, pos, rcv, buffer>>
inputVars == <<stream, dgrams>>
sinkVars == <<log_queue, stats, dispatched, console>>

vars == <<stop_event, fileVars, mainVars, writerVars, listenVars, connVars,
          inputVars, sinkVars>>

\* ------------------------------------------------------- shared operations
\* _update_stats: one increment under stats_lock
_update_stats(st, name) == [st EXCEPT ![name] = @ + 1]

\* a queue that hands out the newest record first
QueuePush(q, r) == <<r>> \o q

\* Queue.put
QueuePut(q, r) == Append(q, r)

\* what _handle_data does with a payload:
\*   "ignored"    empty, or empty after decode().strip()
\*   "err_utf8"   UnicodeDecodeError
\*   "raw"        JSONDecodeError: logged at INFO and queued as raw_data
\*   "event"      a mapping that formats: logged and queued as data
\*   "err_event"  _handle_log_event caught an exception (not a mapping, or
\*                the formatter raised)
Outcome(d) ==
  IF d = <<>> THEN "ignored"
  ELSE IF DecodeFails(d) THEN "err_utf8"
  ELSE LET t == str_strip(d)
       IN  IF t = <<>> THEN "ignored"
           ELSE IF json_loads(t) = "none" THEN "raw"
           ELSE IF json_loads(t) = "dict_ok" THEN "event"
           ELSE "err_event"

\* _handle_data without its except UnicodeDecodeError clause
EscapesUtf8(o) == o = "err_utf8"

\* the outcomes whose exception leaves _handle_data: none, every path ends in
\* an except clause (UnicodeDecodeError, then Exception)
Escapes(o) == FALSE

\* the line self.logger writes for an outcome
Diag(o) ==
  CASE o = "event" -> [level |-> "INFO", text |-> "event"]
    [] o = "raw" -> [level |-> "INFO", text |-> "Non-JSON data"]
    [] o = "err_utf8" -> [level |-> "WARNING", text |-> "Invalid UTF-8 data"]
    [] o = "err_event" -> [level |-> "ERROR", text |-> "Error processing log event"]

\* the line an outcome passes to self.logger, with what it shows of the
\* payload: an event's formatted message at the event's level, the preview
\* of text that is not JSON
ConsoleLine(o, d) ==
  IF o = "event"
  THEN LET r == _handle_log_event(Doc(str_strip(d)[1]))
       IN  [level |-> r.python_level, text |-> Diag(o).text, body |-> r.formatted_message]
  ELSE IF o = "raw"
       THEN [level |-> Diag(o).level, text |-> Diag(o).text, body |-> Preview(str_strip(d))]
       ELSE Diag(o)

\* self.logger.log / info / warning / error: the line is written when its
\* level is enabled
LoggerLog(lines, line) == IF Emitted(line.level) THEN Append(lines, line) ELSE lines

\* the record put on log_queue; n is the payload's arrival number at its source
QueueRecord(s, o, d, k) ==
  [address |-> s,
   key |-> IF o = "event" THEN "data" ELSE "raw_data",
   text |-> str_strip(d),
   n |-> k]

\* _handle_data(d, s) up to and including log_queue.put; the increment of
\* events_processed that follows the put is the caller's next step. An
\* exception that left _handle_data would reach the caller's except clause,
\* which logs an error and counts it.
HandleData(s, d, st) ==
  LET o == Outcome(d)
      k == Len(dispatched[s]) + 1
  IN  /\ dispatched' = [dispatched EXCEPT ![s] = Append(@, d)]
      /\ console' = IF Escapes(o)
                    THEN [console EXCEPT ![s] =
                            Append(@, [level |-> "ERROR", text |-> "handler error"])]
                    ELSE IF o = "ignored" THEN console
                    ELSE [console EXCEPT ![s] = LoggerLog(@, ConsoleLine(o, d))]
      /\ log_queue' = IF o \in {"event", "raw"} /\ ~Escapes(o)
                      THEN QueuePut(log_queue, QueueRecord(s, o, d, k))
                      ELSE log_queue
      /\ stats' = IF o \in {"err_utf8", "err_event"} \/ Escapes(o)
                  THEN _update_stats(st, "errors")
                  ELSE st

HasNewline(q) == FirstNewline(q) # 0

Min(a, b) == IF a <= b THEN a ELSE b

\* ------------------------------------------- _handle_tcp_client (one thread
\* per accepted connection)
\* where the thread goes once a payload has been handled inside the read loop
AfterLine(o, rest) ==
  IF Escapes(o) THEN "closed"
  ELSE IF o = "event" THEN "lines_stat"
  ELSE IF HasNewline(rest) THEN "lines"
  ELSE "check"

\* thread entry: _update_stats('tcp_connections'), settimeout, buffer = b""
ConnStart(c) ==
  /\ procAlive /\ connpc[c] = "start"
  /\ stats' = _update_stats(stats, "tcp_connections")
  /\ buffer' = [buffer EXCEPT ![c] = <<>>]
  /\ connpc' = [connpc EXCEPT ![c] = "check"]
  /\ UNCHANGED <<stop_event, fileVars, mainVars, writerVars, listenVars, pos, rcv,
                 inputVars, log_queue, dispatched, console>>

\* while not self.stop_event.is_set()
ConnCheck(c) ==
  /\ procAlive /\ connpc[c] = "check"
  /\ connpc' = [connpc EXCEPT ![c] = IF stop_event THEN "flush" ELSE "recv"]
  /\ rcv' = [rcv EXCEPT ![c] = "none"]
  /\ UNCHANGED <<stop_event, fileVars, mainVars, writerVars, listenVars, pos, buffer,
                 inputVars, sinkVars>>

\* one buffer shared by every connection thread
ConnRecvDataShared(c) ==
  /\ procAlive /\ connpc[c] = "recv"
  /\ \E k \in 1..Min(Len(stream[c]) - pos[c], buffer_size) :
       LET chunk == SubSeq(stream[c], pos[c] + 1, pos[c] + k)
           buf == buffer[c] \o chunk
       IN  /\ pos' = [pos EXCEPT ![c] = @ + k]
           /\ buffer' = [d \in Conns |-> buffer[d] \o chunk]
           /\ connpc' = [connpc EXCEPT ![c] = IF HasNewline(buf) THEN "lines" ELSE "check"]
  /\ rcv' = [rcv EXCEPT ![c] = "data"]
  /\ UNCHANGED <<stop_event, fileVars, mainVars, writerVars, listenVars,
                 inputVars, sinkVars>>

\* each chunk handled on its own: buffer = chunk
ConnRecvDataNoCarry(c) ==
  /\ procAlive /\ connpc[c] = "recv"
  /\ \E k \in 1..Min(Len(stream[c]) - pos[c], buffer_size) :
       LET chunk == SubSeq(stream[c], pos[c] + 1, pos[c] + k)
           buf == chunk
       IN  /\ pos' = [pos EXCEPT ![c] = @ + k]
           /\ buffer' = [buffer EXCEPT ![c] = buf]
           /\ connpc' = [connpc EXCEPT ![c] = IF HasNewline(buf) THEN "lines" ELSE "check"]
  /\ rcv' = [rcv EXCEPT ![c] = "data"]
  /\ UNCHANGED <<stop_event, fileVars, mainVars, writerVars, listenVars,
                 inputVars, sinkVars>>

\* recv returns a non-empty chunk: buffer += chunk
ConnRecvData(c) ==
  /\ procAlive /\ connpc[c] = "recv"
  /\ \E k \in 1..Min(Len(stream[c]) - pos[c], buffer_size) :
       LET chunk == SubSeq(stream[c], pos[c] + 1, pos[c] + k)
           buf == buffer[c] \o chunk
       IN  /\ pos' = [pos EXCEPT ![c] = @ + k]
           /\ buffer' = [buffer EXCEPT ![c] = buf]
           /\ connpc' = [connpc EXCEPT ![c] = IF HasNewline(buf) THEN "lines" ELSE "check"]
  /\ rcv' = [rcv EXCEPT ![c] = "data"]
  /\ UNCHANGED <<stop_event, fileVars, mainVars, writerVars, listenVars,
                 inputVars, sinkVars>>

\* recv returns b"": the peer closed after sending everything; break
ConnRecvEof(c) ==
  /\ procAlive /\ connpc[c] = "recv"
  /\ pos[c] = Len(stream[c])
  /\ rcv' = [rcv EXCEPT ![c] = "eof"]
  /\ connpc' = [connpc EXCEPT ![c] = "flush"]
  /\ UNCHANGED <<stop_event, fileVars, mainVars, writerVars, listenVars, pos, buffer,
                 inputVars, sinkVars>>

\* a timeout handled like a socket error: break
ConnRecvTimeoutBreaks(c) ==
  /\ procAlive /\ connpc[c] = "recv"
  /\ rcv' = [rcv EXCEPT ![c] = "timeout"]
  /\ connpc' = [connpc EXCEPT ![c] = "flush"]
  /\ UNCHANGED <<stop_event, fileVars, mainVars, writerVars, listenVars, pos, buffer,
                 inputVars, sinkVars>>

\* except socket.timeout: continue
ConnRecvTimeout(c) ==
  /\ procAlive /\ connpc[c] = "recv"
  /\ rcv' = [rcv EXCEPT ![c] = "timeout"]
  /\ connpc' = [connpc EXCEPT ![c] = "check"]
  /\ UNCHANGED <<stop_event, fileVars, mainVars, writerVars, listenVars, pos, buffer,
                 inputVars, sinkVars>>

\* except socket.error: break
ConnRecvError(c) ==
  /\ procAlive /\ connpc[c] = "recv"
  /\ rcv' = [rcv EXCEPT ![c] = "error"]
  /\ connpc' = [connpc EXCEPT ![c] = "flush"]
  /\ UNCHANGED <<stop_event, fileVars, mainVars, writerVars, listenVars, pos, buffer,
                 inputVars, sinkVars>>

\* one turn of: while b'\n' in buffer: line, buffer = buffer.split(b'\n', 1);
\* if line.strip(): self._handle_data(line.strip(), address)
ConnLine(c) ==
  /\ procAlive /\ connpc[c] = "lines"
  /\ LET sp == SplitLine(buffer[c])
         d == bytes_strip(sp.line)
     IN  /\ buffer' = [buffer EXCEPT ![c] = sp.rest]
         /\ IF d # <<>>
            THEN /\ HandleData(c, d, stats)
                 /\ connpc' = [connpc EXCEPT ![c] = AfterLine(Outcome(d), sp.rest)]
            ELSE /\ connpc' = [connpc EXCEPT ![c] =
                                 IF HasNewline(sp.rest) THEN "lines" ELSE "check"]
                 /\ UNCHANGED sinkVars
  /\ UNCHANGED <<stop_event, fileVars, mainVars, writerVars, listenVars, pos, rcv,
                 inputVars>>

\* the thread ends without looking at what is left in the buffer
ConnFlushSilent(c) ==
  /\ procAlive /\ connpc[c] = "flush"
  /\ connpc' = [connpc EXCEPT ![c] = "closed"]
  /\ rcv' = [rcv EXCEPT ![c] = "none"]
  /\ UNCHANGED <<stop_event, fileVars, mainVars, writerVars, listenVars, pos, buffer,
                 inputVars, sinkVars>>

\* after the loop: if buffer.strip(): self._handle_data(buffer.strip(), address);
\* then the socket is closed and the thread ends
ConnFlush(c) ==
  /\ procAlive /\ connpc[c] = "flush"
  /\ LET d == bytes_strip(buffer[c])
     IN  IF d # <<>>
         THEN /\ HandleData(c, d, stats)
              /\ connpc' = [connpc EXCEPT ![c] =
                              IF Outcome(d) = "event" /\ ~Escapes(Outcome(d))
                              THEN "flush_stat" ELSE "closed"]
         ELSE /\ connpc' = [connpc EXCEPT ![c] = "closed"]
              /\ UNCHANGED sinkVars
  /\ rcv' = [rcv EXCEPT ![c] = "none"]
  /\ UNCHANGED <<stop_event, fileVars, mainVars, writerVars, listenVars, pos, buffer,
                 inputVars>>

\* the increment lost to a concurrent update: the counter keeps its value
ConnStatLost(c) ==
  /\ procAlive /\ connpc[c] \in {"lines_stat", "flush_stat"}
  /\ connpc' = [connpc EXCEPT ![c] =
                  IF connpc[c] = "flush_stat" THEN "closed"
                  ELSE IF HasNewline(buffer[c]) THEN "lines" ELSE "check"]
  /\ UNCHANGED <<stop_event, fileVars, mainVars, writerVars, listenVars, pos, rcv,
                 buffer, inputVars, sinkVars>>

\* the end of _handle_log_event: self._update_stats('events_processed')
ConnStat(c) ==
  /\ procAlive /\ connpc[c] \in {"lines_stat", "flush_stat"}
  /\ stats' = _update_stats(stats, "events_processed")
  /\ connpc' = [connpc EXCEPT ![c] =
                  IF connpc[c] = "flush_stat" THEN "closed"
                  ELSE IF HasNewline(buffer[c]) THEN "lines" ELSE "check"]
  /\ UNCHANGED <<stop_event, fileVars, mainVars, writerVars, listenVars, pos, rcv,
                 buffer, inputVars, log_queue, dispatched, console>>

\* ------------------------------------------------------- _start_tcp_server
\* socket, bind, listen: an exception ends the thread (outer except)
TcpBind ==
  /\ procAlive /\ tcppc = "bind"
  /\ \E ok \in BOOLEAN :
       /\ tcppc' = IF ok THEN "check" ELSE "dead"
       /\ stats' = IF ok THEN stats ELSE _update_stats(stats, "errors")
  /\ UNCHANGED <<stop_event, fileVars, mainVars, writerVars, udppc, sockErrors, dpos,
                 connVars, inputVars, log_queue, dispatched, console>>

\* while not self.stop_event.is_set(); leaving the loop closes the socket
TcpCheck ==
  /\ procAlive /\ tcppc = "check"
  /\ tcppc' = IF stop_event THEN "dead" ELSE "accept"
  /\ UNCHANGED <<stop_event, fileVars, mainVars, writerVars, udppc, sockErrors, dpos,
                 connVars, inputVars, sinkVars>>

\* accept() returns a connection: a daemon thread is started for it
TcpAccept(c) ==
  /\ procAlive /\ tcppc = "accept"
  /\ connpc[c] = "idle"
  /\ connpc' = [connpc EXCEPT ![c] = "start"]
  /\ tcppc' = "check"
  /\ UNCHANGED <<stop_event, fileVars, mainVars, writerVars, udppc, sockErrors, dpos,
                 pos, rcv, buffer, inputVars, sinkVars>>

\* except socket.timeout: continue
TcpAcceptTimeout ==
  /\ procAlive /\ tcppc = "accept"
  /\ tcppc' = "check"
  /\ UNCHANGED <<stop_event, fileVars, mainVars, writerVars, udppc, sockErrors, dpos,
                 connVars, inputVars, sinkVars>>

\* except Exception: logged and counted unless stopping; the loop goes on
TcpAcceptError ==
  /\ procAlive /\ tcppc = "accept"
  /\ sockErrors < MaxSocketErrors
  /\ sockErrors' = sockErrors + 1
  /\ stats' = IF stop_event THEN stats ELSE _update_stats(stats, "errors")
  /\ tcppc' = "check"
  /\ UNCHANGED <<stop_event, fileVars, mainVars, writerVars, udppc, dpos,
                 connVars, inputVars, log_queue, dispatched, console>>

\* ------------------------------------------------------- _start_udp_server
UdpBind ==
  /\ procAlive /\ udppc = "bind"
  /\ \E ok \in BOOLEAN :
       /\ udppc' = IF ok THEN "check" ELSE "dead"
       /\ stats' = IF ok THEN stats ELSE _update_stats(stats, "errors")
  /\ UNCHANGED <<stop_event, fileVars, mainVars, writerVars, tcppc, sockErrors, dpos,
                 connVars, inputVars, log_queue, dispatched, console>>

UdpCheck ==
  /\ procAlive /\ udppc = "check"
  /\ udppc' = IF stop_event THEN "dead" ELSE "recv"
  /\ UNCHANGED <<stop_event, fileVars, mainVars, writerVars, tcppc, sockErrors, dpos,
                 connVars, inputVars, sinkVars>>

\* recvfrom returns a datagram: _update_stats('udp_packets'), then
\* _handle_data(data, address); an exception from it is caught by the loop
UdpRecvData ==
  /\ procAlive /\ udppc = "recv"
  /\ dpos < Len(dgrams)
  /\ LET g == dgrams[dpos + 1]
     IN  /\ HandleData(g.from, g.data, _update_stats(stats, "udp_packets"))
         /\ udppc' = IF Outcome(g.data) = "event" /\ ~Escapes(Outcome(g.data))
                     THEN "stat" ELSE "check"
  /\ dpos' = dpos + 1
  /\ UNCHANGED <<stop_event, fileVars, mainVars, writerVars, tcppc, sockErrors,
                 connVars, inputVars>>

\* the end of _handle_log_event: self._update_stats('events_processed')
UdpStat ==
  /\ procAlive /\ udppc = "stat"
  /\ stats' = _update_stats(stats, "events_processed")
  /\ udppc' = "check"
  /\ UNCHANGED <<stop_event, fileVars, mainVars, writerVars, tcppc, sockErrors, dpos,
                 connVars, inputVars, log_queue, dispatched, console>>

\* except socket.timeout: continue
UdpRecvTimeout ==
  /\ procAlive /\ udppc = "recv"
  /\ udppc' = "check"
  /\ UNCHANGED <<stop_event, fileVars, mainVars, writerVars, tcppc, sockErrors, dpos,
                 connVars, inputVars, sinkVars>>

\* except Exception: logged and counted unless stopping; the loop goes on
UdpRecvError ==
  /\ procAlive /\ udppc = "recv"
  /\ sockErrors < MaxSocketErrors
  /\ sockErrors' = sockErrors + 1
  /\ stats' = IF stop_event THEN stats ELSE _update_stats(stats, "errors")
  /\ udppc' = "check"
  /\ UNCHANGED <<stop_event, fileVars, mainVars, writerVars, tcppc, dpos,
                 connVars, inputVars, log_queue, dispatched, console>>

\* ------------------------------------------------------------- _log_writer
\* while not self.stop_event.is_set() or not self.log_queue.empty()
WriterRuns == ~stop_event \/ log_queue # <<>>

\* while not self.stop_event.is_set(): the thread ends at stop with records
\* still on the queue
WriterGetStopsEarly ==
  /\ procAlive /\ wpc = "loop"
  /\ IF stop_event
     THEN /\ wpc' = "done"
          /\ UNCHANGED <<wdata, log_queue>>
     ELSE /\ log_queue # <<>>
          /\ wdata' = Head(log_queue)
          /\ log_queue' = Tail(log_queue)
          /\ wpc' = "getfile"
  /\ UNCHANGED <<stop_event, fileVars, mainVars, wfile, listenVars, connVars,
                 inputVars, stats, dispatched, console>>

\* one turn of the loop up to data = self.log_queue.get(timeout=1): the thread
\* ends when the loop condition is false, takes the head of the queue when
\* there is one, and otherwise waits (except Empty: continue)
WriterGet ==
  /\ procAlive /\ wpc = "loop"
  /\ IF log_queue # <<>>
     THEN /\ wdata' = Head(log_queue)
          /\ log_queue' = Tail(log_queue)
          /\ wpc' = "getfile"
     ELSE /\ ~WriterRuns
          /\ wpc' = "done"
          /\ UNCHANGED <<wdata, log_queue>>
  /\ UNCHANGED <<stop_event, fileVars, mainVars, wfile, listenVars, connVars,
                 inputVars, stats, dispatched, console>>

\* _get_log_file's test: a new day, or no file yet
NeedsOpen == today # current_date \/ log_file = None

\* file.close() on the handle h (None: nothing to close)
CloseHandle(hs, h) == IF h = None THEN hs ELSE [hs EXCEPT ![h].open = FALSE]

\* log_file = self._get_log_file(), under log_file_lock; a falsy result skips
\* the write and the record is gone
WriterGetFile ==
  /\ procAlive /\ wpc = "getfile"
  /\ IF NeedsOpen
     THEN \E ok \in BOOLEAN :
            /\ ok \/ openFailures < MaxOpenFailures
            /\ current_date' = today
            /\ IF ok
               THEN /\ handles' = Append(CloseHandle(handles, log_file),
                                         [date |-> today, open |-> TRUE])
                    /\ log_file' = Len(handles) + 1
                    /\ wfile' = Len(handles) + 1
                    /\ wpc' = "dump"
                    /\ UNCHANGED <<openFailures, stats>>
               ELSE /\ handles' = CloseHandle(handles, log_file)
                    /\ openFailures' = openFailures + 1
                    /\ stats' = _update_stats(stats, "errors")
                    /\ wfile' = None
                    /\ wpc' = "loop"
                    /\ UNCHANGED log_file
     ELSE /\ wfile' = log_file
          /\ wpc' = "dump"
          /\ UNCHANGED <<log_file, current_date, handles, openFailures, stats>>
  /\ UNCHANGED <<stop_event, today, disk, mainVars, wdata, listenVars, connVars,
                 inputVars, log_queue, dispatched, console>>

\* a write or flush on a closed file raises ValueError: except Exception logs
\* it and counts an error, and the loop goes on
WriterFails ==
  /\ stats' = _update_stats(stats, "errors")
  /\ wpc' = "loop"
  /\ UNCHANGED disk

\* json.dump(data, log_file, ensure_ascii=False)
WriterDump ==
  /\ procAlive /\ wpc = "dump"
  /\ IF handles[wfile].open
     THEN /\ disk' = Append(disk, [rec |-> wdata, file |-> handles[wfile].date,
                                   nl |-> FALSE])
          /\ wpc' = "nl"
          /\ UNCHANGED stats
     ELSE WriterFails
  /\ UNCHANGED <<stop_event, log_file, current_date, today, handles, openFailures,
                 mainVars, wdata, wfile, listenVars, connVars, inputVars,
                 log_queue, dispatched, console>>

\* log_file.write('\n')
WriterNewline ==
  /\ procAlive /\ wpc = "nl"
  /\ IF handles[wfile].open
     THEN /\ disk' = [disk EXCEPT ![Len(disk)].nl = TRUE]
          /\ wpc' = "flush"
          /\ UNCHANGED stats
     ELSE WriterFails
  /\ UNCHANGED <<stop_event, log_file, current_date, today, handles, openFailures,
                 mainVars, wdata, wfile, listenVars, connVars, inputVars,
                 log_queue, dispatched, console>>

\* log_file.flush()
WriterFlush ==
  /\ procAlive /\ wpc = "flush"
  /\ IF handles[wfile].open
     THEN /\ wpc' = "loop"
          /\ UNCHANGED <<stats, disk>>
     ELSE WriterFails
  /\ UNCHANGED <<stop_event, log_file, current_date, today, handles, openFailures,
                 mainVars, wdata, wfile, listenVars, connVars, inputVars,
                 log_queue, dispatched, console>>

\* midnight passes
Tick ==
  /\ procAlive /\ today < MaxDay
  /\ today' = today + 1
  /\ UNCHANGED <<stop_event, log_file, current_date, handles, openFailures, disk,
                 mainVars, writerVars, listenVars, connVars, inputVars, sinkVars>>

\* ------------------------------------------------ main thread: start, stop
Top == mainStack[Len(mainStack)]

SetTop(pc) == [mainStack EXCEPT ![Len(mainStack)] = pc]

\* return from stop(): a signal handler frame is popped, start() returns
StopReturn == IF Len(mainStack) > 1
              THEN SubSeq(mainStack, 1, Len(mainStack) - 1)
              ELSE <<"returned">>

\* start(): the writer and the two listener threads are started
MainStart ==
  /\ procAlive /\ Top = "start"
  /\ wpc' = "loop"
  /\ tcppc' = "bind"
  /\ udppc' = "bind"
  /\ mainStack' = SetTop("loop")
  /\ UNCHANGED <<stop_event, fileVars, signals, procAlive, finalStats, heldAtStop, wdata, wfile,
                 sockErrors, dpos, connVars, inputVars, sinkVars>>

ListenersDead == tcppc = "dead" /\ udppc = "dead"

\* the loop left as soon as one listener is gone
MainLoopEither ==
  /\ procAlive /\ Top = "loop"
  /\ stop_event \/ tcppc = "dead" \/ udppc = "dead"
  /\ mainStack' = SetTop("stop_check")
  /\ UNCHANGED <<stop_event, fileVars, signals, procAlive, finalStats, heldAtStop, writerVars,
                 listenVars, connVars, inputVars, sinkVars>>

\* while not self.stop_event.is_set(): the two join(timeout=1) calls, break
\* when neither listener is alive; leaving the loop runs finally: stop()
MainLoop ==
  /\ procAlive /\ Top = "loop"
  /\ stop_event \/ ListenersDead
  /\ mainStack' = SetTop("stop_check")
  /\ UNCHANGED <<stop_event, fileVars, signals, procAlive, finalStats, heldAtStop, writerVars,
                 listenVars, connVars, inputVars, sinkVars>>

\* stop(): if self.stop_event.is_set(): return
StopCheck ==
  /\ procAlive /\ Top = "stop_check"
  /\ mainStack' = IF stop_event THEN StopReturn ELSE SetTop("stop_set")
  /\ UNCHANGED <<stop_event, fileVars, signals, procAlive, finalStats, heldAtStop, writerVars,
                 listenVars, connVars, inputVars, sinkVars>>

\* self.stop_event.set()
StopSet ==
  /\ procAlive /\ Top = "stop_set"
  /\ stop_event' = TRUE
  /\ heldAtStop' = IF stop_event THEN heldAtStop
                   ELSE {c \in Conns : /\ connpc[c] \in {"check", "recv"}
                                       /\ bytes_strip(buffer[c]) # <<>>}
  /\ mainStack' = SetTop("stop_close")
  /\ UNCHANGED <<fileVars, signals, procAlive, finalStats, writerVars,
                 listenVars, connVars, inputVars, sinkVars>>

\* with self.log_file_lock: if self.log_file: close it; self.log_file = None
StopClose ==
  /\ procAlive /\ Top = "stop_close"
  /\ handles' = CloseHandle(handles, log_file)
  /\ log_file' = None
  /\ mainStack' = SetTop("stop_stats")
  /\ UNCHANGED <<stop_event, current_date, today, openFailures, disk, signals,
                 procAlive, finalStats, heldAtStop, writerVars, listenVars, connVars, inputVars,
                 sinkVars>>

\* the final statistics are logged and stop() returns
StopStats ==
  /\ procAlive /\ Top = "stop_stats"
  /\ finalStats' = finalStats + 1
  /\ mainStack' = StopReturn
  /\ UNCHANGED <<stop_event, fileVars, signals, procAlive, heldAtStop, writerVars,
                 listenVars, connVars, inputVars, sinkVars>>

\* SIGINT or SIGTERM: signal_handler runs self.stop() on top of whatever the
\* main thread was doing
Signal ==
  /\ procAlive /\ Top # "returned"
  /\ signals < MaxSignals
  /\ signals' = signals + 1
  /\ mainStack' = Append(mainStack, "stop_check")
  /\ UNCHANGED <<stop_event, fileVars, procAlive, finalStats, heldAtStop, writerVars,
                 listenVars, connVars, inputVars, sinkVars>>

\* start() has returned, main() returns and the interpreter exits: every
\* thread is a daemon thread and ends there
MainExit ==
  /\ procAlive /\ Top = "returned"
  /\ procAlive' = FALSE
  /\ UNCHANGED <<stop_event, fileVars, mainStack, signals, finalStats, heldAtStop,
                 writerVars,
                 listenVars, connVars, inputVars, sinkVars>>

\* ---------------------------------------------------------- specifications
\* the state __init__ leaves, before start(): no thread runs yet
InitServer ==
  /\ stop_event = FALSE
  /\ log_queue = <<>>
  /\ log_file = None
  /\ current_date = 0
  /\ today = 0
  /\ stats = [tcp_connections |-> 0, udp_packets |-> 0, events_processed |-> 0,
              errors |-> 0]
  /\ handles = <<>>
  /\ openFailures = 0
  /\ disk = <<>>
  /\ signals = 0
  /\ procAlive = TRUE
  /\ finalStats = 0
  /\ heldAtStop = {}
  /\ wdata = None
  /\ wfile = None
  /\ sockErrors = 0
  /\ dpos = 0
  /\ pos = [c \in Conns |-> 0]
  /\ rcv = [c \in Conns |-> "none"]
  /\ buffer = [c \in Conns |-> <<>>]
  /\ dispatched = [s \in Sources |-> <<>>]
  /\ console = [s \in Sources |-> <<>>]

\* A whole run of the server, from start() to the exit of the process, with
\* one sender: a peer that dials in over TCP, or a peer that sends datagrams.
LifeStreams == {<<"e", "n", "a">>}

LifeDatagrams ==
  {<<[from |-> NumConns + 1, data |-> <<"e">>], [from |-> NumConns + 1, data |-> <<"a">>]>>}

Init ==
  /\ InitServer
  /\ mainStack = <<"start">>
  /\ wpc = "idle"
  /\ tcppc = "idle"
  /\ udppc = "idle"
  /\ \/ /\ connpc = [c \in Conns |-> IF c = 1 THEN "idle" ELSE "absent"]
        /\ \E q \in LifeStreams : stream = [c \in Conns |-> q]
        /\ dgrams = <<>>
     \/ /\ connpc = [c \in Conns |-> "absent"]
        /\ stream = [c \in Conns |-> <<>>]
        /\ dgrams \in LifeDatagrams

ConnNext ==
  \E c \in Conns :
    \/ ConnStart(c)
    \/ ConnCheck(c)
    \/ ConnRecvData(c)
    \/ ConnRecvEof(c)
    \/ ConnRecvTimeout(c)
    \/ ConnRecvError(c)
    \/ ConnLine(c)
    \/ ConnFlush(c)
    \/ ConnStat(c)

UdpNext ==
  \/ UdpCheck
  \/ UdpRecvData
  \/ UdpStat
  \/ UdpRecvTimeout

Next ==
  \/ MainStart
  \/ MainLoop
  \/ StopCheck
  \/ StopSet
  \/ StopClose
  \/ StopStats
  \/ Signal
  \/ MainExit
  \/ WriterGet
  \/ WriterGetFile
  \/ WriterDump
  \/ WriterNewline
  \/ WriterFlush
  \/ Tick
  \/ TcpBind
  \/ TcpCheck
  \/ \E c \in Conns : TcpAccept(c)
  \/ TcpAcceptTimeout
  \/ UdpBind
  \/ ConnNext
  \/ UdpNext

Spec == Init /\ [][Next]_vars

\* the server once start() has started its threads and both listeners are
\* bound: the main thread waits in its loop and the writer on the queue
InitRunning ==
  /\ InitServer
  /\ mainStack = <<"loop">>
  /\ wpc = "loop"
  /\ tcppc = "check"
  /\ udppc = "check"

\* One sender and everything it can send within the bounds: a TCP peer whose
\* connection has just been accepted, or a peer that sends datagrams.
DatagramBytes == {"m", "a", "e"}

DataDatagrams == [from : UdpSenders, data : SeqsUpTo(DatagramBytes, MaxPayloadLen)]

InitData ==
  /\ InitRunning
  /\ \/ /\ connpc = [c \in Conns |-> IF c = 1 THEN "start" ELSE "absent"]
        /\ \E q \in SeqsUpTo(Bytes, MaxStreamLen) :
             stream = [c \in Conns |-> IF c = 1 THEN q ELSE <<>>]
        /\ dgrams = <<>>
     \/ /\ connpc = [c \in Conns |-> "absent"]
        /\ stream = [c \in Conns |-> <<>>]
        /\ dgrams \in SeqsUpTo(DataDatagrams, MaxDatagrams)

NextData == ConnNext \/ UdpNext

SpecData == InitData /\ [][NextData]_vars

\* Every peer at once: the connections are accepted and served concurrently
\* with the datagram path, and accept() and recvfrom() may raise.
MultiStreams == <<(<<"x", "n", "e">>), (<<"b", "n", "a">>)>>

MultiDatagrams ==
  {<<[from |-> NumConns + 1, data |-> <<"1">>], [from |-> NumConns + 1, data |-> <<"e">>]>>}

InitMulti ==
  /\ InitRunning
  /\ connpc = [c \in Conns |-> "idle"]
  /\ stream = [c \in Conns |-> MultiStreams[((c - 1) % Len(MultiStreams)) + 1]]
  /\ dgrams \in MultiDatagrams

NextMulti ==
  \/ TcpCheck
  \/ \E c \in Conns : TcpAccept(c)
  \/ TcpAcceptTimeout
  \/ TcpAcceptError
  \/ ConnNext
  \/ UdpNext
  \/ UdpRecvError

SpecMulti == InitMulti /\ [][NextMulti]_vars

\* Several peers connected at once, each sending messages long enough for recv
\* to return them in pieces.
CrossStreams == <<(<<"a", "a", "n", "a", "a">>), (<<"e", "n", "1", "s", "1">>)>>

InitCross ==
  /\ InitRunning
  /\ connpc = [c \in Conns |-> "idle"]
  /\ stream = [c \in Conns |-> CrossStreams[((c - 1) % Len(CrossStreams)) + 1]]
  /\ dgrams = <<>>

NextCross ==
  \/ TcpCheck
  \/ \E c \in Conns : TcpAccept(c)
  \/ TcpAcceptTimeout
  \/ ConnNext

SpecCross == InitCross /\ [][NextCross]_vars

\* One sender of datagrams, each a whole JSON document.
DocDatagrams == [from : UdpSenders, data : {<<y>> : y \in DocSymbols}]

InitDecode ==
  /\ InitRunning
  /\ connpc = [c \in Conns |-> "absent"]
  /\ stream = [c \in Conns |-> <<>>]
  /\ dgrams \in SeqsUpTo(DocDatagrams, MaxDatagrams)

NextDecode == UdpNext

SpecDecode == InitDecode /\ [][NextDecode]_vars

\* The writer at work: one sender whose three datagrams each become a record,
\* midnight passing, open() failing, and shutdown by signal.
WriterDatagrams ==
  {<<[from |-> NumConns + 1, data |-> <<"e">>], [from |-> NumConns + 1, data |-> <<"a">>],
     [from |-> NumConns + 1, data |-> <<"e">>]>>}

InitWriter ==
  /\ InitRunning
  /\ connpc = [c \in Conns |-> "absent"]
  /\ stream = [c \in Conns |-> <<>>]
  /\ dgrams \in WriterDatagrams

WriterNext ==
  \/ WriterGet
  \/ WriterGetFile
  \/ WriterDump
  \/ WriterNewline
  \/ WriterFlush

NextWriter ==
  \/ WriterNext
  \/ Tick
  \/ UdpNext
  \/ Signal
  \/ MainLoop
  \/ StopCheck
  \/ StopSet
  \/ StopClose
  \/ StopStats
  \/ MainExit

SpecWriter == InitWriter /\ [][NextWriter]_vars

\* the writer thread is scheduled as long as the process lives (each of its
\* steps moves wpc)
SpecWriterLive == SpecWriter /\ WF_wpc(WriterNext)

\* ================================================================== claims
\* q.split(b'\n'): the pieces between line feeds, the last one undelimited
RECURSIVE Pieces(_)
Pieces(q) ==
  IF "n" \notin Range(q) THEN <<q>>
  ELSE LET i == CHOOSE k \in 1..Len(q) : q[k] = "n" /\ \A j \in 1..(k - 1) : q[j] # "n"
       IN  <<SubSeq(q, 1, i - 1)>> \o Pieces(SubSeq(q, i + 1, Len(q)))

NonBlank(q) == q # <<>>

\* every piece trimmed, the blank ones left out
Trimmed(ps) == SelectSeq([i \in 1..Len(ps) |-> bytes_strip(ps[i])], NonBlank)

\* the bytes recv has returned on connection c
Rcvd(c) == SubSeq(stream[c], 1, pos[c])

Terminated(c) == LET ps == Pieces(Rcvd(c)) IN SubSeq(ps, 1, Len(ps) - 1)

Trailing(c) == LET ps == Pieces(Rcvd(c)) IN ps[Len(ps)]

IsPrefix(p, q) == Len(p) <= Len(q) /\ SubSeq(q, 1, Len(p)) = p

\* C1: stream framing. Between reads a connection has dispatched exactly the
\* non-blank newline-terminated segments it received, once each and in order,
\* and holds the undelimited rest; once closed (end of stream or read error)
\* it has dispatched in addition the trimmed rest, once, when that is not
\* blank.
C1_StreamFraming ==
  \A c \in Conns :
    /\ connpc[c] \in {"check", "recv", "flush"} =>
         /\ dispatched[c] = Trimmed(Terminated(c))
         /\ buffer[c] = Trailing(c)
    /\ connpc[c] = "closed" =>
         dispatched[c] = Trimmed(Terminated(c)) \o Trimmed(<<Trailing(c)>>)

C1_Witness ==
  \E c \in Conns :
    /\ connpc[c] = "closed"
    /\ Terminated(c) # <<>>
    /\ bytes_strip(Trailing(c)) # <<>>
    /\ Len(dispatched[c]) = 2

\* the records that are written, being written or waiting, oldest first
InHand == IF wpc \in {"getfile", "dump"} THEN <<wdata>> ELSE <<>>

Pipeline == [i \in 1..Len(disk) |-> disk[i].rec] \o InHand \o log_queue

\* the datagrams of sender s that recvfrom has returned, in arrival order
Arrived(s) ==
  LET got == SubSeq(dgrams, 1, dpos)
      Mine(g) == g.from = s
      mine == SelectSeq(got, Mine)
  IN  [i \in 1..Len(mine) |-> mine[i].data]

\* C2: per-source ordering. The payloads handed to _handle_data are those of
\* the source in arrival order, and the records of one source stand in the
\* file, the writer's hands and the queue in that same order, each carrying
\* the text of the payload it was made from.
C2_SourceOrder ==
  /\ \A c \in Conns :
       IsPrefix(dispatched[c], Trimmed(Pieces(Rcvd(c))))
  /\ \A s \in UdpSenders : dispatched[s] = Arrived(s)
  /\ \A i \in 1..Len(Pipeline) :
       /\ Pipeline[i].n \in 1..Len(dispatched[Pipeline[i].address])
       /\ Pipeline[i].text = str_strip(dispatched[Pipeline[i].address][Pipeline[i].n])
       /\ \A j \in (i + 1)..Len(Pipeline) :
            Pipeline[i].address = Pipeline[j].address => Pipeline[i].n < Pipeline[j].n

C2_Witness ==
  /\ Len(disk) >= 2
  /\ disk[1].rec.address = disk[2].rec.address
  /\ disk[1].nl /\ disk[2].nl

\* record number k of source s stands complete in a log file
Persisted(s, k) ==
  \E i \in 1..Len(disk) :
    disk[i].nl /\ disk[i].rec.address = s /\ disk[i].rec.n = k

Enqueues(d) == Outcome(d) \in {"event", "raw"}

\* C3: shutdown flush. A connection that held non-blank undelimited bytes
\* when stop was signalled has, by the time the process is gone, ended its
\* task and had its final record written to the log file.
C3_ShutdownFlush ==
  ~procAlive =>
    \A c \in heldAtStop :
      /\ connpc[c] = "closed"
      /\ Len(dispatched[c]) > 0
      /\ Enqueues(dispatched[c][Len(dispatched[c])]) => Persisted(c, Len(dispatched[c]))

\* C4: shutdown join. start() has not returned while a connection task is
\* still running.
C4_ShutdownJoin ==
  Top = "returned" => \A c \in Conns : connpc[c] \in {"absent", "idle", "closed"}

\* C5: no sink write is abandoned. When the process is gone (and no open()
\* failed), every record that was put on the queue stands complete in a log
\* file.
C5_NoAbandonedWrite ==
  (~procAlive /\ openFailures = 0) =>
    \A s \in Sources : \A k \in 1..Len(dispatched[s]) :
      Enqueues(dispatched[s][k]) => Persisted(s, k)

\* C6: sink writes are serialized. While the writer is between obtaining the
\* file handle and the end of flush, nobody has closed that handle.
C6_WriteExclusive ==
  wpc \in {"dump", "nl", "flush"} => handles[wfile].open

\* C7: keepalive. A read timeout leaves the connection in its read loop with
\* its buffer unchanged, and from there it reads again unless the stop signal
\* is set.
C7_Keepalive ==
  [][\A c \in Conns :
       /\ (rcv'[c] = "timeout" /\ rcv[c] # "timeout") =>
            (connpc'[c] = "check" /\ buffer'[c] = buffer[c])
       /\ (rcv[c] = "timeout" /\ connpc'[c] # connpc[c]) =>
            /\ buffer'[c] = buffer[c]
            /\ connpc'[c] = "recv" \/ (stop_event /\ connpc'[c] = "flush")]_vars

C7_Witness ==
  \E c \in Conns : rcv[c] = "timeout" /\ connpc[c] = "check" /\ buffer[c] # <<>>

Anomalous(o) == o \in {"err_utf8", "raw", "err_event"}

Last(q) == q[Len(q)]

OthersUntouched(s) ==
  /\ \A d \in Conns \ {s} : connpc'[d] = connpc[d] /\ buffer'[d] = buffer[d]
  /\ tcppc' = tcppc
  /\ s \in Conns => udppc' = udppc

\* C8: failure isolation. Handling a payload that is invalid UTF-8, not JSON,
\* not a mapping or fails to format leaves its connection in the read loop
\* with the bytes behind it still buffered (the datagram loop goes on
\* receiving), and neither that nor a read error on one connection changes
\* any other connection or listener.
C8_Isolation ==
  [][\A s \in Sources :
       /\ (/\ Len(dispatched'[s]) > Len(dispatched[s])
           /\ Anomalous(Outcome(Last(dispatched'[s])))) =>
            /\ (s \in Conns /\ connpc[s] = "lines") =>
                 /\ connpc'[s] \in {"lines", "check"}
                 /\ buffer'[s] = SplitLine(buffer[s]).rest
            /\ s \in UdpSenders => udppc' = "check"
            /\ OthersUntouched(s)
       /\ (s \in Conns /\ rcv'[s] = "error" /\ rcv[s] # "error") =>
            OthersUntouched(s)]_vars

C8_Witness ==
  \E c \in Conns :
    /\ Len(dispatched[c]) = 2
    /\ Outcome(dispatched[c][1]) = "err_utf8"
    /\ Outcome(dispatched[c][2]) = "event"

MarkerFree(q) == "m" \notin Range(q)

\* A + 0x1E
IsFragmentStart(d) ==
  Len(d) >= 2 /\ d[Len(d)] = "m" /\ MarkerFree(SubSeq(d, 1, Len(d) - 1))

\* 0x1E + B
IsTerminalContinuation(d) == Len(d) >= 2 /\ d[1] = "m" /\ MarkerFree(Tail(d))

QueuedFor(s, ks) == {j \in 1..Len(log_queue) : log_queue[j].address = s /\ log_queue[j].n \in ks}

\* C9: fragment reassembly. A fragment start A + 0x1E followed by a terminal
\* continuation 0x1E + B from the same source yields one record, whose text
\* is A + B, and none for either fragment.
C9_Reassembly ==
  \A s \in Sources : \A i \in 1..(Len(dispatched[s]) - 1) :
    (IsFragmentStart(dispatched[s][i]) /\ IsTerminalContinuation(dispatched[s][i + 1])) =>
      LET A == SubSeq(dispatched[s][i], 1, Len(dispatched[s][i]) - 1)
          B == Tail(dispatched[s][i + 1])
      IN  /\ Cardinality(QueuedFor(s, {i, i + 1})) = 1
          /\ \A j \in QueuedFor(s, {i, i + 1}) : log_queue[j].text = A \o B

\* C10: orphan continuation. A payload that begins with 0x1E and is the first
\* of its source (nothing can be pending) puts no record on the queue and
\* leaves a diagnostic.
C10_OrphanDropped ==
  \A s \in Sources :
    (Len(dispatched[s]) >= 1 /\ IsTerminalContinuation(dispatched[s][1])) =>
      /\ QueuedFor(s, {1}) = {}
      /\ console[s] # <<>>

\* the texts of the records of source s on the queue, oldest first
TextsOf(s) ==
  LET Mine(r) == r.address = s
      mine == SelectSeq(log_queue, Mine)
  IN  [i \in 1..Len(mine) |-> mine[i].text]

\* the texts the payloads ps put on the queue
SinkTexts(ps) ==
  LET kept == SelectSeq(ps, Enqueues)
  IN  [i \in 1..Len(kept) |-> str_strip(kept[i])]

Queued(s, k) == {j \in 1..Len(log_queue) : log_queue[j].address = s /\ log_queue[j].n = k}

\* valid UTF-8 text that is a JSON document but no mapping
NotMapping(d) ==
  /\ "x" \notin Range(d)
  /\ \/ (str_strip(d) # <<>> /\ Range(str_strip(d)) = {"1"})
     \/ (Len(str_strip(d)) = 1 /\ str_strip(d)[1] \in {"ja", "js"})

\* C12: structural mismatch fallback. A payload that is a JSON array, number
\* or string has a raw_data record carrying its text on the queue.
C12_StructuralFallback ==
  \A s \in Sources : \A k \in 1..Len(dispatched[s]) :
    NotMapping(dispatched[s][k]) =>
      \E j \in Queued(s, k) :
        /\ log_queue[j].key = "raw_data"
        /\ log_queue[j].text = str_strip(dispatched[s][k])

\* the payloads among the first k of source s that wrote a console line
LinesUpTo(s, k) ==
  Cardinality({i \in 1..k :
                 /\ Outcome(dispatched[s][i]) # "ignored"
                 /\ Outcome(dispatched[s][i]) = "event" =>
                      Emitted(ConsoleLine("event", dispatched[s][i]).level)})

ErrorOutcomes(s) ==
  {k \in 1..Len(dispatched[s]) : Outcome(dispatched[s][k]) \in {"err_utf8", "err_event"}}

RECURSIVE Sum(_, _)
Sum(f, S) == IF S = {} THEN 0 ELSE LET x == CHOOSE y \in S : TRUE IN f[x] + Sum(f, S \ {x})

\* C13: syntax-failure fallback. Every payload that is valid UTF-8, not blank
\* after trimming and not JSON has exactly one record on the queue, a
\* raw_data record with its whole trimmed text, and one INFO line showing the
\* first 100 characters of the text (all of it when it is shorter), followed
\* by an ellipsis exactly when the text is longer; it counts no error.
C13_SyntaxFallback ==
  /\ \A s \in Sources : \A k \in 1..Len(dispatched[s]) :
       LET d == dispatched[s][k]
           t == str_strip(d)
       IN  ("x" \notin Range(d) /\ t # <<>> /\ json_loads(t) = "none") =>
             /\ Cardinality(Queued(s, k)) = 1
             /\ \A j \in Queued(s, k) :
                  log_queue[j].key = "raw_data" /\ log_queue[j].text = t
             /\ LinesUpTo(s, k) \in 1..Len(console[s])
             /\ LET line == console[s][LinesUpTo(s, k)]
                IN  /\ line.level = "INFO" /\ line.text = "Non-JSON data"
                    /\ line.body.shown <= 100
                    /\ line.body.shown = IF CharLen(t) < 100 THEN CharLen(t) ELSE 100
                    /\ line.body.ellipsis <=> CharLen(t) > 100
  /\ stats.errors = Sum([s \in Sources |-> Cardinality(ErrorOutcomes(s))], Sources)

C13_Witness ==
  \E c \in Conns :
    /\ Len(dispatched[c]) = 1
    /\ CharLen(str_strip(dispatched[c][1])) > 100
    /\ Len(log_queue) = 1 /\ log_queue[1].key = "raw_data"
    /\ Len(console[c]) = 1 /\ console[c][1].body.ellipsis

\* the documents whose exception holds a code or line (its own, a frame's or
\* a previous exception's) that is no number and no numeric-looking string
BadNumericDocs == {"xc", "xl", "xf", "xp"}

\* C14: lenient numeric fields. An event whose exception carries such a code
\* or line is still delivered: a data record for it is on the queue.
C14_LenientNumeric ==
  \A s \in Sources : \A k \in 1..Len(dispatched[s]) :
    (Len(dispatched[s][k]) = 1 /\ dispatched[s][k][1] \in BadNumericDocs) =>
      \E j \in Queued(s, k) : log_queue[j].key = "data"

InvalidUtf8(d) == "x" \in Range(d)

\* C15: invalid byte encoding. Handling a payload that is not valid UTF-8
\* writes one WARNING line and counts one error; it puts nothing on the
\* queue, does not reach the event path (no events_processed step follows),
\* and a connection handling it inside its read loop stays in the loop with
\* the bytes behind the payload still buffered.
C15_InvalidUtf8 ==
  [][\A s \in Sources :
       (/\ Len(dispatched'[s]) > Len(dispatched[s])
        /\ InvalidUtf8(Last(dispatched'[s]))) =>
         /\ log_queue' = log_queue
         /\ console'[s] = Append(console[s],
                                 [level |-> "WARNING", text |-> "Invalid UTF-8 data"])
         /\ stats'.errors = stats.errors + 1
         /\ stats'.events_processed = stats.events_processed
         /\ s \in Conns => connpc'[s] \notin {"lines_stat", "flush_stat"}
         /\ s \in UdpSenders => udppc' = "check"
         /\ (s \in Conns /\ connpc[s] = "lines") =>
              /\ connpc'[s] \in {"lines", "check"}
              /\ buffer'[s] = SplitLine(buffer[s]).rest]_vars

C15_Witness ==
  \E c \in Conns :
    /\ Len(dispatched[c]) = 1 /\ InvalidUtf8(dispatched[c][1])
    /\ connpc[c] = "recv" /\ pos[c] < Len(stream[c])
    /\ log_queue = <<>>
    /\ stats.errors = 1
    /\ Len(console[c]) = 1 /\ console[c][1].level = "WARNING"

\* the lines of source s that are not an event's
Diagnostics(s) == {i \in 1..Len(console[s]) : console[s][i].text # "event"}

\* the payloads of source s that are not blank and gave no event
NotEvents(s) ==
  {k \in 1..Len(dispatched[s]) : Outcome(dispatched[s][k]) \notin {"event", "ignored"}}

\* C16: no silent loss. Each payload that is not blank and gave no event has
\* a diagnostic line, and each one that is valid text has a raw_data record
\* with its text on the queue.
C16_NoSilentLoss ==
  \A s \in Sources :
    /\ Cardinality(Diagnostics(s)) = Cardinality(NotEvents(s))
    /\ \A k \in NotEvents(s) :
         ~InvalidUtf8(dispatched[s][k]) =>
           \E j \in Queued(s, k) :
             /\ log_queue[j].key = "raw_data"
             /\ log_queue[j].text = str_strip(dispatched[s][k])

\* the _handle_tcp_client threads that are running
LiveHandlers == {c \in Conns : connpc[c] \notin {"absent", "idle", "closed"}}

\* C17: connection limit. No more than max_connections connection threads
\* run at once.
C17_ConnectionLimit == Cardinality(LiveHandlers) <= max_connections

\* C18: listener failure scope. A listener that fails to bind ends alone: the
\* step changes nothing of the other listener, of the connections, of the
\* stop signal or of the main thread; and start() leaves its wait loop only
\* with the stop signal set or both listener threads ended.
C18_ListenerScope ==
  [][/\ (tcppc = "bind" /\ tcppc' = "dead") =>
          /\ udppc' = udppc /\ dpos' = dpos
          /\ UNCHANGED <<stop_event, mainVars, writerVars, connVars>>
     /\ (udppc = "bind" /\ udppc' = "dead") =>
          /\ tcppc' = tcppc
          /\ UNCHANGED <<stop_event, mainVars, writerVars, connVars>>
     /\ (mainStack[1] = "loop" /\ mainStack'[1] # "loop") =>
          (stop_event \/ (tcppc = "dead" /\ udppc = "dead"))]_vars

\* TCP failed to bind (it ends otherwise only once stop is set); the datagram
\* listener has served its sender and start() is still waiting
C18_Witness ==
  /\ tcppc = "dead" /\ ~stop_event
  /\ udppc \in {"check", "recv"}
  /\ mainStack = <<"loop">>
  /\ \E s \in UdpSenders : Len(dispatched[s]) = 2 /\ Persisted(s, 1)

\* the level names LogLevel knows
RecognisedLevels == {"DBG", "VRB", "INFO", "WRN", "ERR", "CRT"}

\* the event behind console line number LinesUpTo(s, k) of a source
EventLine(s, k) == console[s][LinesUpTo(s, k)]

\* C19: field defaults. The line written for {"message":"hi"} is routed at
\* INFO and shows level INFO, application name Unknown, message hi and no
\* exception; every event without a level shows INFO and is routed at INFO,
\* every event without an application name shows Unknown, and an event whose
\* level is no recognised name is routed at INFO and shows the level as sent.
\* (An event routed at DEBUG writes no line: the logger's level is INFO.)
C19_FieldDefaults ==
  \A s \in Sources : \A k \in 1..Len(dispatched[s]) :
    LET y == str_strip(dispatched[s][k])[1]
        d == Doc(y).v
    IN  (/\ Outcome(dispatched[s][k]) = "event"
         /\ "level" \in DOMAIN d => d["level"].v \notin {"DBG", "VRB"}) =>
          /\ LinesUpTo(s, k) \in 1..Len(console[s])
          /\ EventLine(s, k).text = "event"
          /\ y = "e" =>
               /\ EventLine(s, k).level = "INFO"
               /\ EventLine(s, k).body.level = Str("INFO")
               /\ EventLine(s, k).body.app_name = Str("Unknown")
               /\ EventLine(s, k).body.message = Str("hi")
               /\ EventLine(s, k).body.exception.st = "none"
          /\ "level" \notin DOMAIN d =>
               /\ EventLine(s, k).level = "INFO"
               /\ EventLine(s, k).body.level = Str("INFO")
          /\ "application_name" \notin DOMAIN d =>
               EventLine(s, k).body.app_name = Str("Unknown")
          /\ ("level" \in DOMAIN d /\ d["level"].v \notin RecognisedLevels) =>
               /\ EventLine(s, k).level = "INFO"
               /\ EventLine(s, k).body.level = d["level"]

C19_Witness ==
  \E s \in UdpSenders :
    /\ dispatched[s] = <<(<<"e">>), (<<"lu">>)>>
    /\ Len(console[s]) = 2
    /\ console[s][2].body.level = Str("FOO")
    /\ Len(log_queue) = 2

\* C20: chunking invariance. A connection that has read its stream to the
\* end and closed has dispatched the stream split on line feeds, each piece
\* trimmed and the blank ones left out, whatever chunks recv returned.
C20_ChunkingInvariance ==
  \A c \in Conns :
    (connpc[c] = "closed" /\ pos[c] = Len(stream[c]) /\ ~stop_event) =>
      dispatched[c] = Trimmed(Pieces(stream[c]))

C20_Witness ==
  \E c \in Conns :
    /\ connpc[c] = "closed" /\ pos[c] = Len(stream[c]) /\ ~stop_event
    /\ Len(stream[c]) = MaxStreamLen
    /\ Len(dispatched[c]) = 1 /\ Len(dispatched[c][1]) = 2
    /\ stream[c][MaxStreamLen] = "n"

\* the outcome of every payload handed to _handle_data, by source
Outcomes ==
  [s \in Sources |-> [k \in 1..Len(dispatched[s]) |-> Outcome(dispatched[s][k])]]

\* how many payloads of all sources had outcome o
RECURSIVE CountUpTo(_, _, _)
CountUpTo(outs, o, n) ==
  IF n = 0 THEN 0
  ELSE Cardinality({k \in 1..Len(outs[n]) : outs[n][k] = o}) + CountUpTo(outs, o, n - 1)

CountIn(outs, o) == CountUpTo(outs, o, NumConns + 1)

\* the threads that have put an event record and not yet counted it
BetweenPutAndCount ==
  Cardinality({c \in Conns : connpc[c] \in {"lines_stat", "flush_stat"}})
  + (IF udppc = "stat" THEN 1 ELSE 0)

\* C21: outcome accounting. With connection and datagram threads interleaved
\* in any way (nothing taken off the queue), each payload handed to
\* _handle_data has put one data record (event), one raw_data record (raw
\* fallback) or none (ignored, error); events_processed counts the events
\* whose thread has passed its increment, errors counts the error outcomes
\* and the socket errors, and so the records on the queue number
\* events_processed plus the raw fallbacks once no thread stands between its
\* put and its increment.
C21_OutcomeAccounting ==
  \A outs \in {Outcomes} : \A events \in {CountIn(outs, "event")} :
  \A raws \in {CountIn(outs, "raw")} :
      /\ \A s \in Sources : \A k \in 1..Len(outs[s]) :
           /\ outs[s][k] \in {"ignored", "event", "raw", "err_utf8", "err_event"}
           /\ Cardinality(Queued(s, k)) = IF outs[s][k] \in {"event", "raw"} THEN 1 ELSE 0
           /\ \A j \in Queued(s, k) :
                log_queue[j].key = IF outs[s][k] = "event" THEN "data" ELSE "raw_data"
      /\ stats.events_processed + BetweenPutAndCount = events
      /\ stats.errors = CountIn(outs, "err_utf8") + CountIn(outs, "err_event") + sockErrors
      /\ Len(log_queue) = stats.events_processed + BetweenPutAndCount + raws
      /\ BetweenPutAndCount = 0 => Len(log_queue) = stats.events_processed + raws

C21_Witness ==
  /\ BetweenPutAndCount = 0
  /\ Len(log_queue) = 3
  /\ stats.events_processed = 2
  /\ \E outs \in {Outcomes} :
       /\ CountIn(outs, "event") = 2 /\ CountIn(outs, "raw") = 1
       /\ CountIn(outs, "err_utf8") = 1 /\ CountIn(outs, "err_event") = 2

\* C22: single shutdown. The body of stop() runs at most once: the final
\* statistics are reported at most once.
C22_SingleShutdown == finalStats <= 1

\* C23: log file handle validity. Whenever _get_log_file returns a handle to
\* the writer, the handle is open and belongs to the current date's file.
C23_HandleValid ==
  [][(wpc = "getfile" /\ wpc' = "dump") =>
       (handles'[wfile'].open /\ handles'[wfile'].date = today)]_vars

\* C24: writer drain and termination. The writer's loop ends only with the
\* stop event set and the queue empty, and once the stop event is set the
\* writer, scheduled for as long as the process lives, ends its loop (or the
\* process has ended first).
C24_WriterDrain ==
  /\ [][(wpc # "done" /\ wpc' = "done") => (stop_event /\ log_queue = <<>>)]_wpc
  /\ stop_event ~> (wpc = "done" \/ ~procAlive)

\* the writer has ended after taking records off the queue with stop set
C24_Witness ==
  /\ wpc = "done" /\ procAlive
  /\ stop_event /\ log_queue = <<>>
  /\ Len(disk) >= 1
  /\ dpos = Len(dgrams)

====
